---------------------------- MODULE Spec2Model ----------------------------
(***************************************************************************)
(* A model of crates/rslint_cli/src/files.rs: the process-wide file id     *)
(* counter, the FileWalker table (id -> JsFile), its parallel ingestion    *)
(* (load_files), its refresh (maybe_update_file_src), the renderer-facing  *)
(* lookups of `impl Files for FileWalker`, and the line index of JsFile.   *)
(*                                                                         *)
(* Strings are sequences of one-character strings (bytes), a path is the   *)
(* sequence of its components, Option<T> is a sequence of length at most   *)
(* one: None is << >> and Some(x) is << x >>. A byte that is part of no    *)
(* valid UTF-8 sequence is the element InvalidByte, which a lossy          *)
(* conversion turns into Replacement (U+FFFD).                             *)
(***************************************************************************)
EXTENDS Integers, Sequences, FiniteSets, TLC

----------------------------------------------------------------------------
(* Bounds of the model. *)

\* Identifiers issued in one run: the counter never passes MaxIds + 1.
MaxIds == 2
\* Longest text buffer of the line-index specification SpecLine.
MaxLen == 3

----------------------------------------------------------------------------
(* Option<T>. *)

None == << >>
Some(x) == << x >>
IsSome(o) == Len(o) = 1
Unwrap(o) == o[1]

----------------------------------------------------------------------------
(* Names, paths and the directory tree that is walked. *)

N_proj         == <<"p", "r", "o", "j">>
N_lib          == <<"l", "i", "b">>
N_x_js         == <<"x", ".", "j", "s">>
N_y_mjs        == <<"y", ".", "m", "j", "s">>
N_z_js         == <<"z", ".", "j", "s">>
N_w_mjs        == <<"w", ".", "m", "j", "s">>
N_readme_md    == <<"r", ".", "m", "d">>
N_deep_js      == <<"d", ".", "j", "s">>
N_dot_js       == <<".", "j", "s">>
N_node_modules == <<"n", "o", "d", "e", "_", "m", "o", "d", "u", "l", "e", "s">>

\* A byte of a file name that is not UTF-8, and what to_string_lossy makes of it.
InvalidByte == "xFF"
Replacement == "uFFFD"

N_raw          == <<"r", "a", "w">>
N_bad_js       == <<InvalidByte, ".", "j", "s">>

\* const IGNORED: [&str; 1] = ["node_modules"];
IGNORED == { N_node_modules }
\* const LINTED_FILES: [&str; 2] = ["js", "mjs"];
LINTED_FILES == { <<"j", "s">>, <<"m", "j", "s">> }

\* The directories of the tree, each with its entries in read_dir order.
\*   proj/        x.js  y.mjs  node_modules/z.js  r.md
\*   lib/         x.js  .js  d.js/node_modules/w.mjs     (d.js is a directory)
\*   raw/         <FF>.js                                (a name that is not UTF-8)
DirEntries(p) ==
    CASE p = <<N_proj>>                           -> <<N_x_js, N_y_mjs, N_node_modules, N_readme_md>>
      [] p = <<N_proj, N_node_modules>>           -> <<N_z_js>>
      [] p = <<N_lib>>                            -> <<N_x_js, N_dot_js, N_deep_js>>
      [] p = <<N_lib, N_deep_js>>                 -> <<N_node_modules>>
      [] p = <<N_lib, N_deep_js, N_node_modules>> -> <<N_w_mjs>>
      [] p = <<N_raw>>                            -> <<N_bad_js>>
      [] OTHER                                    -> << >>

Dirs ==
    { <<N_proj>>, <<N_proj, N_node_modules>>, <<N_lib>>, <<N_lib, N_deep_js>>,
      <<N_lib, N_deep_js, N_node_modules>>, <<N_raw>> }

RegularFiles ==
    { <<N_proj, N_x_js>>, <<N_proj, N_y_mjs>>, <<N_proj, N_readme_md>>,
      <<N_proj, N_node_modules, N_z_js>>, <<N_lib, N_x_js>>, <<N_lib, N_dot_js>>,
      <<N_lib, N_deep_js, N_node_modules, N_w_mjs>>, <<N_raw, N_bad_js>> }

\* Path::file_name: the final component, None for a path without one.
file_name(p) == IF Len(p) = 0 THEN None ELSE Some(p[Len(p)])

\* The positions of the byte c in the string s.
IndicesOf(s, c) == { i \in 1..Len(s) : s[i] = c }

Max(S) == CHOOSE m \in S : \A x \in S : x <= m

\* Path::extension: the part of the file name after its last '.', None when the
\* name has no '.', or only a leading one.
extension(p) ==
    IF ~IsSome(file_name(p)) THEN None
    ELSE LET n    == Unwrap(file_name(p))
             dots == IndicesOf(n, ".")
         IN  IF dots = {} \/ Max(dots) = 1 THEN None
             ELSE Some(SubSeq(n, Max(dots) + 1, Len(n)))

\* Option::unwrap_or_default on an Option of a string.
OrDefault(o) == IF IsSome(o) THEN Unwrap(o) ELSE << >>

\* OsStr::to_string_lossy: every invalid byte becomes U+FFFD.
to_string_lossy(n) == [i \in 1..Len(n) |-> IF n[i] = InvalidByte THEN Replacement ELSE n[i]]

RECURSIVE JoinFrom(_, _)
JoinFrom(p, i) ==
    IF i > Len(p) THEN << >>
    ELSE IF i = Len(p) THEN p[i]
    ELSE p[i] \o <<"/">> \o JoinFrom(p, i + 1)

\* Path::to_str: the components joined by the separator, None when the path
\* is not valid UTF-8.
to_str(p) ==
    IF \E i \in 1..Len(p) : InvalidByte \in { p[i][j] : j \in 1..Len(p[i]) } THEN None
    ELSE Some(JoinFrom(p, 1))

----------------------------------------------------------------------------
(* The walk of load_files: lines 71-89. *)

\* .filter(|p| !IGNORED.contains(p.file_name()...)) on the roots, line 72.
RootKept(root) == to_string_lossy(OrDefault(file_name(root))) \notin IGNORED

\* No filter_entry: the ignore list is applied to the roots alone.
EntryKept_rootOnly(p) == TRUE

\* filter_entry(|p| !IGNORED.contains(p.file_name()...)), line 78.
EntryKept(p) == to_string_lossy(p[Len(p)]) \notin IGNORED

RECURSIVE WalkDir(_, _)
RECURSIVE WalkEntries(_, _, _)
\* WalkDir::new(path).into_iter().filter_entry(..).filter_map(Result::ok):
\* the entry itself, then (a directory that can be listed) its entries in
\* turn; a pruned entry is not yielded and not descended into, and an error
\* (a directory in bad, a path that does not exist) yields nothing.
WalkDir(p, bad) ==
    IF p \notin Dirs \cup RegularFiles THEN << >>
    ELSE IF ~EntryKept(p) THEN << >>
    ELSE IF p \in Dirs /\ p \notin bad THEN <<p>> \o WalkEntries(p, 1, bad)
    ELSE <<p>>

WalkEntries(d, i, bad) ==
    IF i > Len(DirEntries(d)) THEN << >>
    ELSE WalkDir(Append(d, DirEntries(d)[i]), bad) \o WalkEntries(d, i + 1, bad)

\* .filter(|p| LINTED_FILES.contains(p.path().extension()...)), line 81.
Linted(p) == to_string_lossy(OrDefault(extension(p))) \in LINTED_FILES

RECURSIVE SelectLinted(_)
SelectLinted(s) ==
    IF s = << >> THEN << >>
    ELSE IF Linted(Head(s)) THEN <<Head(s)>> \o SelectLinted(Tail(s))
    ELSE SelectLinted(Tail(s))

RECURSIVE Candidates(_, _)
\* The entries that reach the read of line 92, for the roots in order.
Candidates(roots, bad) ==
    IF roots = << >> THEN << >>
    ELSE (IF RootKept(Head(roots)) THEN SelectLinted(WalkDir(Head(roots), bad)) ELSE << >>)
         \o Candidates(Tail(roots), bad)

----------------------------------------------------------------------------
(* JsFile: the line index. *)

\* JsFile::line_starts: once(0) chained with i + 1 for every '\n' at byte i
\* (0-based), in increasing order.
RECURSIVE NewlinesFrom(_, _)
NewlinesFrom(source, i) ==
    IF i > Len(source) THEN << >>
    ELSE IF source[i] = "\n" THEN <<i>> \o NewlinesFrom(source, i + 1)
    ELSE NewlinesFrom(source, i + 1)

\* No once(0): the table holds the offsets after the '\n' bytes alone.
line_starts_noZero(source) == NewlinesFrom(source, 1)

\* `i` in place of `i + 1`: the offset of the '\n' itself.
line_starts_at(source) ==
    <<0>> \o [k \in 1..Len(NewlinesFrom(source, 1)) |-> NewlinesFrom(source, 1)[k] - 1]

line_starts(source) == <<0>> \o NewlinesFrom(source, 1)

\* The result of slice::binary_search: Ok(i) or Err(i).
Ok(i)  == [ok |-> TRUE, at |-> i]
Err(i) == [ok |-> FALSE, at |-> i]

RECURSIVE BinarySearch(_, _, _, _)
\* Binary search of the sorted vector v (0-based positions lo..hi-1) for x.
BinarySearch(v, x, lo, hi) ==
    IF lo >= hi THEN Err(lo)
    ELSE LET mid == lo + ((hi - lo) \div 2)
         IN  IF v[mid + 1] = x THEN Ok(mid)
             ELSE IF v[mid + 1] < x THEN BinarySearch(v, x, mid + 1, hi)
             ELSE BinarySearch(v, x, lo, mid)

binary_search(v, x) == BinarySearch(v, x, 0, Len(v))

\* Equal folded into Greater: no end boundary.
line_start_noEnd(file, line) ==
    IF line < Len(file.line_starts) THEN Some(file.line_starts[line + 1]) ELSE None

\* JsFile::line_start.
line_start(file, line) ==
    IF line < Len(file.line_starts) THEN Some(file.line_starts[line + 1])
    ELSE IF line = Len(file.line_starts) THEN Some(Len(file.source))
    ELSE None

\* usize subtraction: a - b, which overflows (a panic in a debug build, a wrap
\* to 2^64 - (b - a) in a release build) when b > a.
Underflow == -1
SubUsize(a, b) == IF a >= b THEN a - b ELSE Underflow

\* Err(next_line) => next_line: the insertion point taken for the line.
line_index_insertion(file, byte_index) == binary_search(file.line_starts, byte_index).at

\* JsFile::line_index.
line_index(file, byte_index) ==
    LET r == binary_search(file.line_starts, byte_index)
    IN  IF r.ok THEN r.at ELSE SubUsize(r.at, 1)

\* unwrap_or(self.source.len()) in place of the second `?`.
line_range_noFail(file, line) ==
    LET a == line_start(file, line)
        b == line_start(file, line + 1)
    IN  IF ~IsSome(a) THEN None
        ELSE Some(<<Unwrap(a), IF IsSome(b) THEN Unwrap(b) ELSE Len(file.source)>>)

\* JsFile::line_range, with the two `?`: the range start..end as <<start, end>>.
line_range(file, line) ==
    LET a == line_start(file, line)
        b == line_start(file, line + 1)
    IN  IF ~IsSome(a) THEN None
        ELSE IF ~IsSome(b) THEN None
        ELSE Some(<<Unwrap(a), Unwrap(b)>>)

----------------------------------------------------------------------------
(* JsFile: construction and content replacement. *)

Script == "Script"
Module == "Module"

\* AtomicUsize::fetch_add(1, SeqCst): the value returned and the value stored.
FetchAddReturned(counter) == counter
\* A lost update: a load and a store in place of one fetch_add, the store of
\* another task in between.
FetchAddStored_lost(counter) == counter
FetchAddStored(counter)   == counter + 1

\* The kind chosen at lines 158-166.
KindOf(path) ==
    IF (IF IsSome(extension(path)) THEN to_string_lossy(Unwrap(extension(path))) ELSE << >>)
         = <<"m", "j", "s">>
    THEN Module ELSE Script

\* JsFile::new_concrete(source, path), with the identifier the counter gave.
new_concrete(source, path, id) ==
    [ source      |-> source,
      name        |-> IF IsSome(file_name(path)) THEN to_string_lossy(Unwrap(file_name(path)))
                      ELSE << >>,
      path        |-> Some(path),
      id          |-> id,
      kind        |-> KindOf(path),
      line_starts |-> line_starts(source) ]

\* The source replaced and the line starts left as they were.
update_src_stale(file, new) == [file EXCEPT !.source = new]

\* JsFile::update_src(new).
update_src(file, new) ==
    [file EXCEPT !.line_starts = line_starts(new), !.source = new]

----------------------------------------------------------------------------
(* The state. *)

\* The FileWalker values of the process.
Walkers == {"A", "B"}

\* The contents a read of a file can give.
T_one == <<"a", "\n", "b">>
T_two == <<"\n">>
Texts == {T_one, T_two}

\* The root lists load_files is called with.
RootLists ==
    { << <<N_proj>> >>,
      << <<N_lib>> >>,
      << <<N_proj, N_x_js>>, <<N_lib>> >>,
      << <<N_proj, N_node_modules>> >>,
      << <<N_proj, N_node_modules, N_z_js>> >>,
      << <<N_raw>> >> }

\* The directories whose listing fails during one walk.
BadDirChoices == { {}, { <<N_lib>> } }

VARIABLES
    FILE_ID_COUNTER,  \* static FILE_ID_COUNTER: AtomicUsize
    files,            \* files[w]: the HashMap<usize, JsFile> of walker w
    call,             \* call[w]: the load_files call running on walker w
    issued,           \* history: the identifiers fetch_add returned, in order
    last              \* history: the operation that ended last, its inputs and result

vars == <<FILE_ID_COUNTER, files, call, issued, last>>

EmptyMap == [k \in {} |-> None]

Idle == [phase |-> "idle"]

Init ==
    /\ FILE_ID_COUNTER = 1
    /\ files = [w \in Walkers |-> EmptyMap]
    /\ call = [w \in Walkers |-> Idle]
    /\ issued = << >>
    /\ last = [op |-> "init"]

----------------------------------------------------------------------------
(* FileWalker::load_files: one task per candidate entry, then the merge. *)

\* A task of a call: not yet run, ended by the `return None` of line 96, or
\* ended with a file built from the content read.
Todo           == [pc |-> "todo"]
Failed         == [pc |-> "failed", read |-> None]
Built(file)    == [pc |-> "built", read |-> Some(file.source), file |-> file]

Running(w) == call[w].phase = "par"

\* The tasks of every running call that may still draw an identifier.
Pending ==
    LET open(w) == IF Running(w)
                   THEN { i \in 1..Len(call[w].task) :
                            call[w].task[i].pc = "todo" /\ call[w].cand[i] \in RegularFiles }
                   ELSE {}
        RECURSIVE Sum(_)
        Sum(W) == IF W = {} THEN 0
                  ELSE LET w == CHOOSE x \in W : TRUE
                       IN  Cardinality(open(w)) + Sum(W \ {w})
    IN  Sum(Walkers)

\* load_files is entered: the roots are filtered and walked (lines 71-89).
\* The call starts only when the identifiers it can draw are within MaxIds.
StartLoad(w, roots, bad) ==
    /\ ~Running(w)
    /\ LET cand == Candidates(roots, bad)
           n    == Cardinality({ i \in 1..Len(cand) : cand[i] \in RegularFiles })
       IN  /\ (FILE_ID_COUNTER - 1) + Pending + n <= MaxIds
           /\ call' = [call EXCEPT ![w] =
                         [ phase |-> "par", roots |-> roots, bad |-> bad, cand |-> cand,
                           task  |-> [i \in 1..Len(cand) |-> Todo] ]]
    /\ UNCHANGED <<FILE_ID_COUNTER, files, issued, last>>

\* What read_to_string can give for a path: a directory is never read.
ReadResults(path) ==
    IF path \in RegularFiles THEN { None } \cup { Some(t) : t \in Texts } ELSE { None }

\* The task of candidate i, lines 90-102: read_to_string(path), and on Ok
\* JsFile::new_concrete(src, path). The read touches no state of the process
\* and the construction touches the counter alone, in one fetch_add: the task
\* takes effect at that instruction.
Task(w, i, r) ==
    /\ Running(w)
    /\ i \in 1..Len(call[w].task)
    /\ call[w].task[i].pc = "todo"
    /\ r \in ReadResults(call[w].cand[i])
    /\ IF IsSome(r)
       THEN LET id == FetchAddReturned(FILE_ID_COUNTER)
            IN  /\ FILE_ID_COUNTER' = FetchAddStored(FILE_ID_COUNTER)
                /\ issued' = Append(issued, id)
                /\ call' = [call EXCEPT ![w].task[i] =
                              Built(new_concrete(Unwrap(r), call[w].cand[i], id))]
       ELSE /\ call' = [call EXCEPT ![w].task[i] = Failed]
            /\ UNCHANGED <<FILE_ID_COUNTER, issued>>
    /\ UNCHANGED <<files, last>>

\* enumerate() in place of `(file.id, file)`: a file keyed by its place in the batch.
Pairs_enumerate(c) ==
    { <<i, c.task[i].file>> : i \in { j \in 1..Len(c.task) : c.task[j].pc = "built" } }

\* The (id, file) pairs of line 102 of a finished call.
Pairs(c) == { <<c.task[i].file.id, c.task[i].file>> :
                 i \in { j \in 1..Len(c.task) : c.task[j].pc = "built" } }

\* collect() into a Result<HashMap<..>, _>: one failed read and nothing is kept.
Collected_abort(c) ==
    IF \E i \in 1..Len(c.task) : c.task[i].pc = "failed"
    THEN { [k \in {} |-> None] }
    ELSE { [k \in { pr[1] : pr \in Pairs(c) } |->
              (CHOOSE pr \in Pairs(c) : pr[1] = k)[2]] }

\* collect() into a HashMap<usize, JsFile> (line 103): one entry per key, any
\* one of the files paired with it.
Collected(c) ==
    LET keys == { pr[1] : pr \in Pairs(c) }
    IN  { m \in [keys -> { pr[2] : pr \in Pairs(c) }] :
            \A k \in keys : <<k, m[k]>> \in Pairs(c) }

\* `self.files = jsfiles` in place of extend.
Extend_assign(map, jsfiles) == jsfiles

\* HashMap::extend (line 104): an entry of jsfiles replaces one under the same key.
Extend(map, jsfiles) ==
    [k \in DOMAIN map \cup DOMAIN jsfiles |->
        IF k \in DOMAIN jsfiles THEN jsfiles[k] ELSE map[k]]

\* The merge waits for a file from every task.
AllDone_built(c) == \A i \in 1..Len(c.task) : c.task[i].pc = "built"

\* The merge does not wait for the tasks: it takes what is there once one has ended.
AllDone_first(c) == \E i \in 1..Len(c.task) : c.task[i].pc \in {"failed", "built"}

\* The parallel iterator is exhausted: every task has ended, either way.
AllDone(c) == \A i \in 1..Len(c.task) : c.task[i].pc \in {"failed", "built"}

\* Lines 103-104, once every task has ended: collect, extend, return.
Merge(w) ==
    /\ Running(w)
    /\ AllDone(call[w])
    /\ \E jsfiles \in Collected(call[w]) :
          files' = [files EXCEPT ![w] = Extend(files[w], jsfiles)]
    /\ call' = [call EXCEPT ![w] = Idle]
    /\ last' = [ op |-> "load_files", w |-> w, roots |-> call[w].roots,
                 bad |-> call[w].bad, cand |-> call[w].cand, task |-> call[w].task ]
    /\ UNCHANGED <<FILE_ID_COUNTER, issued>>

----------------------------------------------------------------------------
(* FileWalker::maybe_update_file_src and JsFile::update_src. *)

\* The paths a change notification names.
RefreshPaths ==
    { <<N_proj, N_x_js>>, <<N_lib, N_x_js>>, <<N_proj, N_y_mjs>>, <<N_proj, N_readme_md>> }

\* The closure of line 113: the files whose path has the file name of path.
Matching(map, path) ==
    { k \in DOMAIN map :
        IF IsSome(map[k].path) THEN file_name(Unwrap(map[k].path)) = file_name(path)
        ELSE FALSE }

\* Line 127 left out.
Reload_stale(file, src) == [file EXCEPT !.source = src]

\* Lines 126-127 on the file found.
Reload(file, src) ==
    [file EXCEPT !.source = src, !.line_starts = line_starts(src)]

\* read_to_string(&path).unwrap_or_default() in place of the early return.
AfterRead_default(file, r) == Reload(file, OrDefault(r))

\* Lines 118-127 on the file found, r being what read_to_string(&path) gave:
\* on Err the function returns with the file as it was.
AfterRead(file, r) == IF IsSome(r) THEN Reload(file, Unwrap(r)) ELSE file

\* for_each over the matching values in place of find: all of them reloaded.
Refreshed_all(map, path, k, r) ==
    [j \in DOMAIN map |-> IF j \in Matching(map, path) THEN AfterRead(map[j], r) ELSE map[j]]

\* The table after lines 113-127 when find gives the entry under k: `file` is
\* a &mut to that one value.
Refreshed(map, path, k, r) == [map EXCEPT ![k] = AfterRead(map[k], r)]

\* maybe_update_file_src(path) when find gives the entry under k; r is what
\* read_to_string(&path) gives.
RefreshFound(w, path, k, r) ==
    /\ ~Running(w)
    /\ k \in Matching(files[w], path)
    /\ r \in { None } \cup { Some(t) : t \in Texts }
    /\ files' = [files EXCEPT ![w] = Refreshed(files[w], path, k, r)]
    /\ last' = [ op |-> "refresh", w |-> w, path |-> path, found |-> Some(k), read |-> r,
                 old |-> Some(files[w][k].source), tried |-> TRUE ]
    /\ UNCHANGED <<FILE_ID_COUNTER, call, issued>>

\* maybe_update_file_src(path) when find gives nothing: nothing is read.
RefreshNone(w, path) ==
    /\ ~Running(w)
    /\ Matching(files[w], path) = {}
    /\ last' = [ op |-> "refresh", w |-> w, path |-> path, found |-> None, read |-> None,
                 old |-> None, tried |-> FALSE ]
    /\ UNCHANGED <<FILE_ID_COUNTER, files, call, issued>>

\* JsFile::update_src(new) on the file under k, through the pub field `files`.
ReplaceContent(w, k, new) ==
    /\ ~Running(w)
    /\ k \in DOMAIN files[w]
    /\ files' = [files EXCEPT ![w][k] = update_src(files[w][k], new)]
    /\ last' = [ op |-> "update_src", w |-> w, id |-> k, new |-> new,
                 old |-> files[w][k].source ]
    /\ UNCHANGED <<FILE_ID_COUNTER, call, issued>>

----------------------------------------------------------------------------
(* JsFile::new_concrete called outside load_files (it is pub): an identifier *)
(* is drawn for a file that enters no table of the model.                   *)

Construct(src, path) ==
    /\ (FILE_ID_COUNTER - 1) + Pending + 1 <= MaxIds
    /\ LET file == new_concrete(src, path, FetchAddReturned(FILE_ID_COUNTER))
       IN  /\ FILE_ID_COUNTER' = FetchAddStored(FILE_ID_COUNTER)
           /\ issued' = Append(issued, file.id)
           /\ last' = [ op |-> "new_concrete", file |-> file ]
    /\ UNCHANGED <<files, call>>

----------------------------------------------------------------------------
(* impl Files for FileWalker, and FileWalker::line_start. *)

\* `Some(entry.name.as_str())`: the name field, whatever the path.
FileWalker_name_field(map, id) ==
    IF id \notin DOMAIN map THEN None ELSE Some(map[id].name)

\* FileWalker::name: the path as a string when there is one and it is valid
\* UTF-8, else the name.
FileWalker_name(map, id) ==
    IF id \notin DOMAIN map THEN None
    ELSE LET entry == map[id]
             str   == IF IsSome(entry.path) THEN to_str(Unwrap(entry.path)) ELSE None
         IN  Some(IF IsSome(str) THEN Unwrap(str) ELSE entry.name)

\* FileWalker::source.
\* unwrap_or_default() in place of the `?`: an unknown id reads as an empty file.
FileWalker_source_default(map, id) ==
    Some(IF id \in DOMAIN map THEN map[id].source ELSE << >>)

\* FileWalker::source.
FileWalker_source(map, id) ==
    IF id \notin DOMAIN map THEN None ELSE Some(map[id].source)

\* FileWalker::line_index.
FileWalker_line_index(map, id, byte_index) ==
    IF id \notin DOMAIN map THEN None ELSE Some(line_index(map[id], byte_index))

\* FileWalker::line_range.
FileWalker_line_range(map, id, line) ==
    IF id \notin DOMAIN map THEN None ELSE line_range(map[id], line)

\* FileWalker::line_start.
FileWalker_line_start(map, id, line) ==
    IF id \notin DOMAIN map THEN None ELSE line_start(map[id], line)

\* A lookup borrows the walker: it runs when no load_files call holds it.
Lookup(w, rec) ==
    /\ ~Running(w)
    /\ last' = rec
    /\ UNCHANGED <<FILE_ID_COUNTER, files, call, issued>>

LookupName(w, id) ==
    Lookup(w, [ op |-> "name", w |-> w, id |-> id, ret |-> FileWalker_name(files[w], id) ])

LookupSource(w, id) ==
    Lookup(w, [ op |-> "source", w |-> w, id |-> id, ret |-> FileWalker_source(files[w], id) ])

LookupLineIndex(w, id, byte_index) ==
    Lookup(w, [ op |-> "line_index", w |-> w, id |-> id, arg |-> byte_index,
                ret |-> FileWalker_line_index(files[w], id, byte_index) ])

LookupLineRange(w, id, line) ==
    Lookup(w, [ op |-> "line_range", w |-> w, id |-> id, arg |-> line,
                ret |-> FileWalker_line_range(files[w], id, line) ])

LookupLineStart(w, id, line) ==
    Lookup(w, [ op |-> "line_start", w |-> w, id |-> id, arg |-> line,
                ret |-> FileWalker_line_start(files[w], id, line) ])

----------------------------------------------------------------------------
(* The specifications. *)

\* The inputs of the lookups: every identifier up to one never issued, every
\* offset up to one past the longest buffer, every line up to one past the
\* end boundary of the longest line table.
Ids     == 0..(MaxIds + 1)
Offsets == 0..(MaxLen + 1)
Lines   == 0..(MaxLen + 2)

Reads == { None } \cup { Some(t) : t \in Texts }

Load(w, rootLists, badChoices) ==
    \/ \E roots \in rootLists, bad \in badChoices : StartLoad(w, roots, bad)
    \/ \E i \in 1..(IF Running(w) THEN Len(call[w].task) ELSE 0), r \in Reads : Task(w, i, r)
    \/ Merge(w)

Mutate(w) ==
    \/ \E path \in RefreshPaths, k \in DOMAIN files[w], r \in Reads : RefreshFound(w, path, k, r)
    \/ \E path \in RefreshPaths : RefreshNone(w, path)
    \/ \E k \in DOMAIN files[w], new \in Texts : ReplaceContent(w, k, new)

Query(w) ==
    \/ \E id \in Ids : LookupName(w, id)
    \/ \E id \in Ids : LookupSource(w, id)
    \/ \E id \in Ids, byte_index \in Offsets : LookupLineIndex(w, id, byte_index)
    \/ \E id \in Ids, line \in Lines : LookupLineRange(w, id, line)

\* One walker driven by its owner (loads, refreshes, replacements, lookups),
\* while identifiers are also drawn elsewhere in the process.
Next ==
    \/ Load("A", RootLists, BadDirChoices)
    \/ Mutate("A")
    \/ Query("A")
    \/ \E src \in Texts, path \in RefreshPaths : Construct(src, path)

Spec == Init /\ [][Next]_vars

\* Two walkers loading disjoint roots at the same time: their tasks interleave
\* on the counter.
DisjointRoots == { << <<N_proj>> >>, << <<N_lib>> >> }

NextPar == \E w \in Walkers : Load(w, DisjointRoots, { {} })

SpecPar == Init /\ [][NextPar]_vars

\* A task of walker w's running call runs.
TaskStep(w) ==
    \E i \in 1..(IF Running(w) THEN Len(call[w].task) ELSE 0), r \in Reads : Task(w, i, r)

\* The scheduling of load_files: rayon runs every task that is ready (a read
\* returns Ok or Err), and the calling thread goes on to the merge once the
\* tasks have ended.
Fairness == \A w \in Walkers : WF_vars(TaskStep(w)) /\ WF_vars(Merge(w))

SpecFair == Init /\ [][NextPar]_vars /\ Fairness

----------------------------------------------------------------------------
(* The line index alone: one file of every content up to MaxLen bytes, as   *)
(* load_files leaves it, the line queries on it and the replacement of its  *)
(* content.                                                                 *)

Bytes == {"a", "\n", "\r"}

AllTexts == UNION { [1..n -> Bytes] : n \in 0..MaxLen }

\* The buffer "a\nbb\nccc": three lines, no trailing newline.
T_abc == <<"a", "\n", "b", "b", "\n", "c", "c", "c">>

LineTexts == AllTexts \cup {T_abc}

InitLine ==
    /\ FILE_ID_COUNTER = 2
    /\ \E t \in LineTexts :
          files = [w \in Walkers |->
                     IF w = "A" THEN (1 :> new_concrete(t, <<N_proj, N_x_js>>, 1)) ELSE EmptyMap]
    /\ call = [w \in Walkers |-> Idle]
    /\ issued = <<1>>
    /\ last = [op |-> "init"]

NextLine ==
    \/ \E id \in Ids, byte_index \in Offsets : LookupLineIndex("A", id, byte_index)
    \/ \E id \in Ids, line \in Lines : LookupLineRange("A", id, line)
    \/ \E id \in Ids, line \in Lines : LookupLineStart("A", id, line)
    \/ \E k \in DOMAIN files["A"], new \in LineTexts : ReplaceContent("A", k, new)

SpecLine == InitLine /\ [][NextLine]_vars

----------------------------------------------------------------------------
(* Helpers of the properties. *)

Range(seq) == { seq[i] : i \in 1..Len(seq) }

\* The tasks of walker w's running call that built a file.
BuiltTasks(w) ==
    IF Running(w) THEN { i \in 1..Len(call[w].task) : call[w].task[i].pc = "built" } ELSE {}

\* Where a JsFile lives: under a key of a table, or in a task of a running call.
FileAt(h) == IF h[1] = "table" THEN files[h[2]][h[3]] ELSE call[h[2]].task[h[3]].file
Held ==
    UNION { { <<"table", w, k>> : k \in DOMAIN files[w] } : w \in Walkers }
    \cup UNION { { <<"task", w, i>> : i \in BuiltTasks(w) } : w \in Walkers }

----------------------------------------------------------------------------
(* C1: under every interleaving of the tasks of concurrent load_files calls,  *)
(* over several calls and several walkers, every identifier fetch_add returned *)
(* to new_concrete is positive and is returned once: the identifiers issued   *)
(* are pairwise different, none is the reserved 0, and no two files, in any   *)
(* table or task, carry the same identifier.                                  *)
C1_UniqueIds ==
    /\ \A i, j \in 1..Len(issued) : i # j => issued[i] # issued[j]
    /\ \A i \in 1..Len(issued) : issued[i] > 0
    /\ \A g, h \in Held : g # h => FileAt(g).id # FileAt(h).id
    /\ \A h \in Held : FileAt(h).id \in Range(issued)

\* Both walkers are inside load_files, each with a file built.
C1_Witness ==
    /\ BuiltTasks("A") # {} /\ BuiltTasks("B") # {}
    /\ Len(issued) >= 2

----------------------------------------------------------------------------
\* The number of '\n' among the first o bytes of text.
NewlinesBefore(text, o) == Cardinality({ i \in 1..o : text[i] = "\n" })

(* C2: in every state, each file of a table or of a task has the line-start  *)
(* table line_starts computes from its current source, whatever loads,       *)
(* refreshes and update_src calls came before; and line_index, asked for an  *)
(* offset within the current source, answers the number of '\n' bytes before *)
(* that offset in the current source.                                        *)
C2_IndexMatchesSource ==
    /\ \A h \in Held : FileAt(h).line_starts = line_starts(FileAt(h).source)
    /\ (last.op = "line_index" /\ last.id \in DOMAIN files[last.w])
          => LET src == files[last.w][last.id].source
             IN  last.arg <= Len(src) => last.ret = Some(NewlinesBefore(src, last.arg))

\* update_src has just replaced a source by one with other line starts.
C2_Witness ==
    /\ last.op = "update_src"
    /\ last.old # last.new
    /\ files[last.w][last.id].source = last.new
    /\ files[last.w][last.id].line_starts # line_starts(last.old)

----------------------------------------------------------------------------
(* Steps of the operations, told by the history variable. *)

\* The step is the end of an operation named op.
Ended(op) == last' # last /\ last'.op = op

\* The step is the merge that ends walker w's load_files call.
MergeStep(w) == call[w].phase = "par" /\ call'[w].phase = "idle"

\* Two paths with the same final component.
SameFinal(p, q) == Len(p) > 0 /\ Len(q) > 0 /\ p[Len(p)] = q[Len(q)]

----------------------------------------------------------------------------
(* C3: a maybe_update_file_src(path) call that finds a file whose path ends   *)
(* in the final component of path, and whose read of path succeeds, leaves a  *)
(* file with that final component holding the content read and the line      *)
(* starts of that content, under the same key and with the same id as before. *)
C3_RefreshReplaces ==
    [][ (Ended("refresh") /\ IsSome(last'.read))
          => LET w == last'.w
                 t == Unwrap(last'.read)
             IN  /\ DOMAIN files'[w] = DOMAIN files[w]
                 /\ \E k \in DOMAIN files[w] :
                       /\ SameFinal(Unwrap(files[w][k].path), last'.path)
                       /\ files'[w][k] = [files[w][k] EXCEPT !.source = t,
                                                             !.line_starts = line_starts(t)]
                       /\ files'[w][k].id = files[w][k].id
                       /\ files[w][k].id = k ]_vars

\* A refresh has just replaced a source by another read from the given path.
C3_Witness ==
    /\ last.op = "refresh" /\ IsSome(last.found) /\ IsSome(last.read)
    /\ last.old # last.read
    /\ files[last.w][Unwrap(last.found)].source = Unwrap(last.read)
    /\ files[last.w][Unwrap(last.found)].line_starts # line_starts(Unwrap(last.old))

----------------------------------------------------------------------------
(* C4: a maybe_update_file_src(path) call that finds a file and whose read of *)
(* path fails changes nothing: every table, with the file found in it, is as  *)
(* it was before the call.                                                   *)
C4_FailedRefreshKeeps ==
    [][ (Ended("refresh") /\ IsSome(last'.found) /\ ~IsSome(last'.read))
          => /\ files' = files
             /\ Unwrap(last'.found) \in Matching(files[last'.w], last'.path) ]_vars

\* A refresh has just found a file and failed to read the path.
C4_Witness ==
    /\ last.op = "refresh" /\ IsSome(last.found) /\ ~IsSome(last.read)
    /\ files[last.w][Unwrap(last.found)].source = T_one

----------------------------------------------------------------------------
(* C5: name, source, line_index and line_range answer None for an id that is  *)
(* not a key of the table they are asked of, and 0 is never a key of a table, *)
(* whatever loads and refreshes came before.                                  *)
C5_UnknownIdAbsent ==
    /\ (last.op \in {"name", "source", "line_index", "line_range"}
          /\ last.id \notin DOMAIN files[last.w]) => last.ret = None
    /\ \A w \in Walkers : 0 \notin DOMAIN files[w]

\* A lookup of id 0 in a table that holds files has just answered None.
C5_Witness ==
    /\ last.op = "source" /\ last.id = 0 /\ last.ret = None
    /\ DOMAIN files[last.w] # {}

----------------------------------------------------------------------------
\* The step is a failed read of candidate i of walker w's running call.
FailStep(w, i) ==
    /\ call[w].phase = "par" /\ call'[w].phase = "par"
    /\ call[w].task[i].pc = "todo" /\ call'[w].task[i].pc = "failed"

(* C6: a failed read ends its own task and nothing else: the call goes on,    *)
(* the other tasks and the tables are as they were; and the merge that ends   *)
(* the call adds to the table one file for each candidate whose read          *)
(* succeeded, with that candidate's path and the content read, and nothing    *)
(* else: a candidate whose read failed has no file of its own.                *)
C6_FailedReadDropsOneFile ==
    [][ \A w \in Walkers :
         /\ Running(w)
              => \A i \in 1..Len(call[w].task) : FailStep(w, i)
                   => /\ files' = files
                      /\ call'[w].cand = call[w].cand
                      /\ \A j \in 1..Len(call[w].task) \ {i} :
                            call'[w].task[j] = call[w].task[j]
         /\ MergeStep(w)
          => LET c   == call[w]
                 ok  == { i \in 1..Len(c.task) : IsSome(c.task[i].read) }
                 new == DOMAIN files'[w] \ DOMAIN files[w]
             IN  /\ Cardinality(new) = Cardinality(ok)
                 /\ \A i \in ok :
                       \E k \in new : /\ files'[w][k].path = Some(c.cand[i])
                                      /\ files'[w][k].source = Unwrap(c.task[i].read)
                                      /\ files'[w][k] = c.task[i].file
                 /\ \A k \in new :
                       Cardinality({ i \in ok : c.task[i].file = files'[w][k] }) = 1
                 /\ \A i \in 1..Len(c.task) \ ok : c.task[i].pc = "failed" ]_vars

\* A call has just merged after one read of a regular file failed and one
\* succeeded: the table holds the file read and none for the other.
C6_Witness ==
    /\ last.op = "load_files"
    /\ \E i, j \in 1..Len(last.task) :
          /\ last.task[i].pc = "failed" /\ last.cand[i] \in RegularFiles
          /\ last.task[j].pc = "built"
          /\ last.task[j].file.id \in DOMAIN files[last.w]
          /\ \A k \in DOMAIN files[last.w] : files[last.w][k].path # Some(last.cand[i])

----------------------------------------------------------------------------
(* C7: which files a load_files call reads and turns into files of the table. *)

\* The names of the tree with extension js or mjs, and those with mjs.
LintedNames == { N_x_js, N_y_mjs, N_z_js, N_w_mjs, N_deep_js, N_bad_js }
ModuleNames == { N_y_mjs, N_w_mjs }

\* r is p or a directory above p.
Prefix(r, p) == Len(r) >= 1 /\ Len(r) <= Len(p) /\ SubSeq(p, 1, Len(r)) = r

\* No name from the root r down to p, both included, is node_modules.
Unignored(r, p) == Prefix(r, p) /\ \A i \in Len(r)..Len(p) : p[i] # N_node_modules

\* Every directory from the root r down to p is listed by the walk.
Listed(r, p, bad) == \A n \in Len(r)..(Len(p) - 1) : SubSeq(p, 1, n) \notin bad

\* The file f is one the call c is to read: its extension is linted and some
\* root leads to it through no ignored name (listed: and through no
\* directory whose listing failed).
Want(c, f, listed) ==
    /\ f[Len(f)] \in LintedNames
    /\ \E j \in 1..Len(c.roots) :
          /\ Unignored(c.roots[j], f)
          /\ listed => Listed(c.roots[j], f, c.bad)

\* At the merge of a call: a regular file is read exactly when it is wanted,
\* it has a file in the table exactly when a read of it succeeded, every new
\* file is Module exactly for an mjs name, and the root proj with every read
\* succeeding gives x.js as Script and y.mjs as Module and nothing else.
C7_Holds(listed) ==
    \A w \in Walkers : MergeStep(w)
      => LET c   == call[w]
             new == DOMAIN files'[w] \ DOMAIN files[w]
             at(f) == { i \in 1..Len(c.cand) : c.cand[i] = f }
         IN  /\ \A f \in RegularFiles :
                   /\ Want(c, f, listed) <=> at(f) # {}
                   /\ (\E k \in new : files'[w][k].path = Some(f))
                         <=> (\E i \in at(f) : IsSome(c.task[i].read))
             /\ \A k \in new :
                   LET p == Unwrap(files'[w][k].path)
                   IN  /\ p \in RegularFiles
                       /\ files'[w][k].kind = IF p[Len(p)] \in ModuleNames THEN Module ELSE Script
             /\ (c.roots = << <<N_proj>> >> /\ \A i \in 1..Len(c.task) : IsSome(c.task[i].read))
                   => { <<files'[w][k].path, files'[w][k].kind>> : k \in new }
                        = { <<Some(<<N_proj, N_x_js>>), Script>>, <<Some(<<N_proj, N_y_mjs>>), Module>> }
                      /\ Cardinality(new) = 2

(* C7 as claimed: a load_files call makes a file of the table for a readable  *)
(* file if and only if its extension is js or mjs and neither the root nor    *)
(* any name on the way down to it is node_modules; its kind is Module exactly *)
(* for mjs; the root proj gives x.js as Script and y.mjs as Module only.      *)
C7_Original == [][C7_Holds(FALSE)]_vars

(* C7 as amended: a load_files call makes a file of the table for a readable  *)
(* file if and only if its extension is js or mjs, neither the root nor any   *)
(* name on the way down to it is node_modules, and every directory from the   *)
(* root down to it can be listed; its kind is Module exactly for mjs; the     *)
(* root proj gives x.js as Script and y.mjs as Module only.                   *)
C7_Amended == [][C7_Holds(TRUE)]_vars

\* The root proj has just been loaded, every read succeeding: the table holds
\* x.js as Script and y.mjs as Module, and neither z.js nor r.md.
C7_Witness ==
    /\ last.op = "load_files" /\ last.roots = << <<N_proj>> >>
    /\ { <<files[last.w][k].path, files[last.w][k].kind>> : k \in DOMAIN files[last.w] }
         = { <<Some(<<N_proj, N_x_js>>), Script>>, <<Some(<<N_proj, N_y_mjs>>), Module>> }

----------------------------------------------------------------------------
(* The sizes C8 counts. *)

\* The number of files in the tables together.
RECURSIVE TableSizes(_)
TableSizes(W) ==
    IF W = {} THEN 0
    ELSE LET w == CHOOSE x \in W : TRUE
         IN  Cardinality(DOMAIN files[w]) + TableSizes(W \ {w})

\* The number of files built by the calls still running.
RECURSIVE BuiltCount(_)
BuiltCount(W) ==
    IF W = {} THEN 0
    ELSE LET w == CHOOSE x \in W : TRUE
         IN  Cardinality(BuiltTasks(w)) + BuiltCount(W \ {w})

(* C8: however the tasks of the calls of two walkers on disjoint roots        *)
(* interleave and in whichever order the calls merge, a merge adds to its     *)
(* table as many files as reads of its call succeeded, under keys that are    *)
(* new to the table and differ from one another, and leaves every file the    *)
(* table held as it was; so the tables together hold one file for each         *)
(* successful read of the calls merged, and share no key.                      *)
C8_MergeOrderFree ==
    [][ \A w \in Walkers : MergeStep(w)
          => LET c   == call[w]
                 ok  == { i \in 1..Len(c.task) : IsSome(c.task[i].read) }
                 ids == { c.task[i].file.id : i \in ok }
             IN  /\ Cardinality(DOMAIN files'[w]) = Cardinality(DOMAIN files[w]) + Cardinality(ok)
                 /\ Cardinality(ids) = Cardinality(ok)
                 /\ ids \cap DOMAIN files[w] = {}
                 /\ \A k \in DOMAIN files[w] : k \in DOMAIN files'[w] /\ files'[w][k] = files[w][k]
                 /\ \A v \in Walkers \ {w} : DOMAIN files'[w] \cap DOMAIN files'[v] = {}
                 /\ TableSizes(Walkers)' + BuiltCount(Walkers)' = Len(issued') ]_vars

\* The call on lib has just merged into a table that held a file of proj, and
\* the table holds a file of each.
C8_Witness ==
    /\ last.op = "load_files" /\ last.roots = << <<N_lib>> >>
    /\ \E k1, k2 \in DOMAIN files[last.w] :
          /\ k1 < k2
          /\ Unwrap(files[last.w][k1].path)[1] = N_proj
          /\ Unwrap(files[last.w][k2].path)[1] = N_lib

----------------------------------------------------------------------------
(* C9: for a file of any content, line_index(o) is i whenever                *)
(* line_start(i) <= o < line_start(i + 1), both defined; and for every line i *)
(* of the table, line_index(line_start(i)) is i.                              *)
C9_LineIndexOfOffset ==
    (last.op = "line_index" /\ last.id \in DOMAIN files[last.w])
      => LET file == files[last.w][last.id]
             o    == last.arg
         IN  /\ \A i \in Lines :
                   ( /\ IsSome(line_start(file, i)) /\ IsSome(line_start(file, i + 1))
                     /\ Unwrap(line_start(file, i)) <= o
                     /\ o < Unwrap(line_start(file, i + 1)) )
                   => last.ret = Some(i)
             /\ \A i \in 0..(Len(file.line_starts) - 1) :
                   o = Unwrap(line_start(file, i)) => last.ret = Some(i)

\* line_index has just answered 1 for an offset inside line 1, past its start,
\* of a file of three lines.
C9_Witness ==
    /\ last.op = "line_index" /\ last.id \in DOMAIN files[last.w]
    /\ LET file == files[last.w][last.id]
       IN  /\ Len(file.line_starts) = 3
           /\ last.arg > file.line_starts[2]
           /\ last.arg < file.line_starts[3]
           /\ last.ret = Some(1)

----------------------------------------------------------------------------
(* C10: for a file of any content, line_start(i) is the i-th entry of the     *)
(* line-start table when i is less than the number of entries (0 for i = 0),  *)
(* the length of the source when i is that number, and None when i is more.   *)
C10_LineStart ==
    (last.op = "line_start" /\ last.id \in DOMAIN files[last.w])
      => LET file == files[last.w][last.id]
             n    == Len(file.line_starts)
             i    == last.arg
         IN  /\ i < n => last.ret = Some(file.line_starts[i + 1])
             /\ i = 0 => last.ret = Some(0)
             /\ i = n => last.ret = Some(Len(file.source))
             /\ i > n => last.ret = None
             /\ n = 1 + Cardinality({ j \in 1..Len(file.source) : file.source[j] = "\n" })

\* line_start has just answered the length of a source that does not end in
\* '\n', asked for the line after its last one.
C10_Witness ==
    /\ last.op = "line_start" /\ last.id \in DOMAIN files[last.w]
    /\ LET file == files[last.w][last.id]
       IN  /\ last.arg = Len(file.line_starts)
           /\ Len(file.line_starts) = 2
           /\ Len(file.source) = 3
           /\ file.source[3] = "a"
           /\ last.ret = Some(3)

----------------------------------------------------------------------------
(* C11: for a file of any content, of n lines (n is 1 plus the number of     *)
(* '\n'), line_range(i) is the pair of line_start(i) and line_start(i + 1)    *)
(* when both are defined and None otherwise; it is defined exactly for        *)
(* i < n; the range of line n - 1 ends at the length of the source and        *)
(* line_range(n) is None; for "a\nbb\nccc", line 1 is [2,5), line 2 is [5,8)  *)
(* and line 3 has no range.                                                   *)
C11_LineRange ==
    (last.op = "line_range" /\ last.id \in DOMAIN files[last.w])
      => LET file == files[last.w][last.id]
             n    == 1 + NewlinesBefore(file.source, Len(file.source))
             i    == last.arg
             a    == line_start(file, i)
             b    == line_start(file, i + 1)
         IN  /\ (IsSome(a) /\ IsSome(b)) => last.ret = Some(<<Unwrap(a), Unwrap(b)>>)
             /\ ~(IsSome(a) /\ IsSome(b)) => last.ret = None
             /\ IsSome(last.ret) <=> i < n
             /\ i = n - 1 => /\ IsSome(last.ret)
                             /\ Unwrap(last.ret)[2] = Len(file.source)
                             /\ Unwrap(last.ret)[1] = file.line_starts[n]
             /\ i = n => last.ret = None
             /\ file.source = T_abc
                   => /\ i = 1 => last.ret = Some(<<2, 5>>)
                      /\ i = 2 => last.ret = Some(<<5, 8>>)
                      /\ i = 3 => last.ret = None

\* line_range has just answered [5,8) for the last line of "a\nbb\nccc".
C11_Witness ==
    /\ last.op = "line_range" /\ last.id \in DOMAIN files[last.w]
    /\ files[last.w][last.id].source = T_abc
    /\ last.arg = 2
    /\ last.ret = Some(<<5, 8>>)

----------------------------------------------------------------------------
\* The final component of the path of a file, as text.
FinalComponent(file) == to_string_lossy(Unwrap(file.path)[Len(Unwrap(file.path))])

\* Whether every byte of every component of the path of a file is valid UTF-8.
ValidPath(file) ==
    \A i \in 1..Len(Unwrap(file.path)) :
       \A j \in 1..Len(Unwrap(file.path)[i]) : Unwrap(file.path)[i][j] # InvalidByte

(* C12 as stated: the name looked up for an identifier of the table is the    *)
(* name field of the file, the final component of its path.                   *)
C12_Original ==
    (last.op = "name" /\ last.id \in DOMAIN files[last.w])
      => LET file == files[last.w][last.id]
         IN  /\ file.name = FinalComponent(file)
             /\ last.ret = Some(file.name)

(* C12, amended: the name field of every file of a table is the final         *)
(* component of its path; the name looked up for an identifier of the table   *)
(* is the whole path of the file, its components joined by the separator,     *)
(* when the path is valid UTF-8, and the name field when it is not.           *)
C12_Amended ==
    /\ \A w \in Walkers : \A k \in DOMAIN files[w] :
          IsSome(files[w][k].path) /\ files[w][k].name = FinalComponent(files[w][k])
    /\ (last.op = "name" /\ last.id \in DOMAIN files[last.w])
          => LET file == files[last.w][last.id]
             IN  IF ValidPath(file)
                 THEN last.ret = Some(JoinFrom(Unwrap(file.path), 1))
                 ELSE last.ret = Some(file.name)

\* The name of a file of proj has just been looked up: the answer is longer
\* than the name field, and ends in it.
C12_Witness ==
    /\ last.op = "name" /\ last.id \in DOMAIN files[last.w]
    /\ LET file == files[last.w][last.id]
           ret  == Unwrap(last.ret)
       IN  /\ Unwrap(file.path)[1] = N_proj
           /\ Len(ret) > Len(file.name)
           /\ SubSeq(ret, Len(ret) - Len(file.name) + 1, Len(ret)) = file.name

----------------------------------------------------------------------------
\* Walker w's last load_files call has returned, and its table holds every
\* file the call built from a successful read.
Finished(w) ==
    /\ ~Running(w)
    /\ last.op = "load_files" /\ last.w = w
    /\ \A i \in 1..Len(last.task) :
          IsSome(last.task[i].read)
            => /\ last.task[i].file.id \in DOMAIN files[w]
               /\ files[w][last.task[i].file.id] = last.task[i].file

(* C13: under fair scheduling of the tasks and of the callers, every          *)
(* load_files call that has started returns, whichever of its reads failed    *)
(* and however its tasks interleave with those of another call, and when it   *)
(* returns the table holds the files built from its successful reads.         *)
C13_IngestCompletes == \A w \in Walkers : Running(w) ~> Finished(w)

\* A call with one read failed and one succeeded has returned, the file read
\* in its table, while the other walker's call is still running.
C13_Witness ==
    /\ last.op = "load_files"
    /\ Finished(last.w)
    /\ \E i, j \in 1..Len(last.task) :
          last.task[i].pc = "failed" /\ last.task[j].pc = "built"
    /\ \E v \in Walkers \ {last.w} : Running(v)

----------------------------------------------------------------------------
(* C14: the line-start table of a file of any content begins with 0, is       *)
(* strictly increasing, and its further entries are exactly the offsets p + 1 *)
(* of the bytes that follow a '\n' at offset p, one entry for each; so it has  *)
(* one entry more than the source has '\n' bytes.                             *)
C14_LineStartsShape ==
    \A w \in Walkers : \A k \in DOMAIN files[w] :
       LET src == files[w][k].source
           ls  == files[w][k].line_starts
           nl  == { p \in 0..(Len(src) - 1) : src[p + 1] = "\n" }
       IN  /\ Len(ls) >= 1 /\ ls[1] = 0
           /\ \A i \in 1..(Len(ls) - 1) : ls[i] < ls[i + 1]
           /\ { ls[i] : i \in 2..Len(ls) } = { p + 1 : p \in nl }
           /\ Len(ls) = 1 + Cardinality(nl)

\* update_src has just computed the table of a buffer with a '\r', a '\n'
\* and a last line without '\n', in place of a table of three lines.
C14_Witness ==
    /\ last.op = "update_src"
    /\ Len(line_starts(last.old)) = 3
    /\ files[last.w][last.id].source = <<"\r", "\n", "a">>
    /\ files[last.w][last.id].line_starts = <<0, 2>>

----------------------------------------------------------------------------
(* C15: on every step (a task, a merge, a refresh, an update_src, a lookup),  *)
(* every key of a table is still a key of it afterwards, and the file under   *)
(* it has the id, the path, the name and the kind it had: a step changes at   *)
(* most the source and the line starts of a file that is in a table.          *)
C15_NoEviction ==
    [][ \A w \in Walkers : \A k \in DOMAIN files[w] :
          /\ k \in DOMAIN files'[w]
          /\ files'[w][k].id = files[w][k].id
          /\ files'[w][k].path = files[w][k].path
          /\ files'[w][k].name = files[w][k].name
          /\ files'[w][k].kind = files[w][k].kind ]_vars

\* A later load_files call has just merged a file into a table that holds an
\* older file, a Module, built by none of the tasks of this call.
C15_Witness ==
    /\ last.op = "load_files"
    /\ \E i \in 1..Len(last.task) : last.task[i].pc = "built"
    /\ \E k \in DOMAIN files[last.w] :
          /\ \A i \in 1..Len(last.task) :
                last.task[i].pc = "built" => last.task[i].file.id # k
          /\ files[last.w][k].source = T_two
          /\ files[last.w][k].kind = Module

----------------------------------------------------------------------------
(* C16: while a load_files call runs on a walker, a step that is not its      *)
(* merge leaves the walker's table as it was, and a step of one of its tasks  *)
(* changes nothing but the task's own result and, for a file built, the       *)
(* counter; the table changes on the merge step alone, which is taken when    *)
(* every task of the call has ended and puts all the files of the call into   *)
(* the table at once.                                                         *)
C16_SingleMerge ==
    [][ \A w \in Walkers : Running(w)
          => LET c     == call[w]
                 built == { i \in 1..Len(c.task) : c.task[i].pc = "built" }
                 ended == \A i \in 1..Len(c.task) : c.task[i].pc # "todo"
             IN  /\ ~ended => files'[w] = files[w] /\ call'[w].phase = "par"
                 /\ (call'[w].phase = "par" /\ call'[w] # c)
                       => /\ files' = files
                          /\ call'[w].cand = c.cand
                          /\ \A v \in Walkers \ {w} : call'[v] = call[v]
                          /\ FILE_ID_COUNTER' \in {FILE_ID_COUNTER, FILE_ID_COUNTER + 1}
                 /\ files'[w] # files[w]
                       => /\ MergeStep(w)
                          /\ ended
                          /\ DOMAIN files'[w] =
                                DOMAIN files[w] \cup { c.task[i].file.id : i \in built }
                          /\ \A i \in built : files'[w][c.task[i].file.id] = c.task[i].file
                 /\ MergeStep(w) => FILE_ID_COUNTER' = FILE_ID_COUNTER ]_vars

\* A call is running with one file built and one task still to run, and the
\* file built is not in the table.
C16_Witness ==
    \E w \in Walkers :
       /\ Running(w)
       /\ \E i, j \in 1..Len(call[w].task) :
             /\ call[w].task[i].pc = "built"
             /\ call[w].task[j].pc = "todo"
             /\ call[w].task[i].file.id \notin DOMAIN files[w]

----------------------------------------------------------------------------
(* C17: a maybe_update_file_src(path) call leaves the keys of its table as    *)
(* they were and changes the file under at most one of them, one whose path   *)
(* ends in the final component of path, however many such files the table     *)
(* holds; it leaves the other tables alone; and when no file of the table     *)
(* has that final component it changes no file and calls read_to_string not   *)
(* at all.                                                                    *)
C17_RefreshFrame ==
    [][ Ended("refresh")
          => LET w       == last'.w
                 changed == { k \in DOMAIN files[w] : files'[w][k] # files[w][k] }
                 same    == { k \in DOMAIN files[w] :
                                SameFinal(Unwrap(files[w][k].path), last'.path) }
             IN  /\ DOMAIN files'[w] = DOMAIN files[w]
                 /\ Cardinality(changed) <= 1
                 /\ changed \subseteq same
                 /\ \A v \in Walkers \ {w} : files'[v] = files[v]
                 /\ same = {} => files' = files /\ ~last'.tried
                 /\ same # {} => last'.tried ]_vars

\* A refresh has just replaced the content of one of two files with the same
\* final component, and the other has another content.
C17_Witness ==
    /\ last.op = "refresh" /\ IsSome(last.found) /\ IsSome(last.read)
    /\ LET k == Unwrap(last.found)
       IN  /\ files[last.w][k].source = Unwrap(last.read)
           /\ last.old # last.read
           /\ \E j \in DOMAIN files[last.w] \ {k} :
                 /\ SameFinal(Unwrap(files[last.w][j].path), last.path)
                 /\ files[last.w][j].source # Unwrap(last.read)

----------------------------------------------------------------------------
(* C18: in every state, after any loads, refreshes and update_src calls,      *)
(* the file under a key k of a table has the id k.                            *)
C18_KeyIsId ==
    \A w \in Walkers : \A k \in DOMAIN files[w] : files[w][k].id = k

\* A refresh has just replaced the content of the second file of a table of
\* two, merged by two load_files calls.
C18_Witness ==
    /\ last.op = "refresh" /\ IsSome(last.read)
    /\ last.found = Some(2)
    /\ DOMAIN files[last.w] = {1, 2}
    /\ files[last.w][1].path = files[last.w][2].path
    /\ files[last.w][2].source = Unwrap(last.read)

----------------------------------------------------------------------------
(* C19: for a file of a table, however loads, refreshes and update_src calls  *)
(* made it, and for every offset, those past the end of the source included,  *)
(* the binary search of line_index does not report the insertion point 0, so  *)
(* `next_line - 1` does not underflow; the line answered is one of            *)
(* 0 .. n - 1, n being the number of lines of the source, and it is n - 1 for *)
(* an offset past the end.                                                    *)
C19_LineIndexInRange ==
    (last.op = "line_index" /\ last.id \in DOMAIN files[last.w])
      => LET file == files[last.w][last.id]
             n    == 1 + NewlinesBefore(file.source, Len(file.source))
             r    == binary_search(file.line_starts, last.arg)
         IN  /\ r.ok \/ r.at >= 1
             /\ IsSome(last.ret)
             /\ Unwrap(last.ret) # Underflow
             /\ Unwrap(last.ret) \in 0..(n - 1)
             /\ last.arg > Len(file.source) => Unwrap(last.ret) = n - 1

\* line_index has just answered the last of the two lines of "a\nb" for an
\* offset past its end.
C19_Witness ==
    /\ last.op = "line_index" /\ last.id \in DOMAIN files[last.w]
    /\ LET file == files[last.w][last.id]
       IN  /\ file.source = T_one
           /\ last.arg > Len(file.source)
           /\ last.ret = Some(1)

=============================================================================
